---- MODULE Spec2Model ----
(***************************************************************************)
(* MamoDataset (src/dataloader/mamo_dataset.py): a torch Dataset that      *)
(* pairs input samples with output samples, or an input sample with       *)
(* itself when no output data is given.                                    *)
(*                                                                         *)
(* A numpy array is a block of memory at an address; torch.from_numpy      *)
(* makes a tensor over the SAME block, so the caller's later element       *)
(* writes are visible through the dataset.  A sample is abstracted to one  *)
(* value of Values.  Indexing is torch's: an integer index may count from  *)
(* the end, a slice is clamped, a slice step must be positive (ValueError) *)
(* and an index that is neither (a float) raises IndexError.               *)
(***************************************************************************)
EXTENDS Integers, Sequences, FiniteSets, TLC

MaxLen == 2

Values == {0, 1}

Readers == {"r1", "r2"}

\* every Python value is a record with a type field
None == [type |-> "NoneType"]

ndarray(s) == [type |-> "ndarray", a |-> s]

int(n) == [type |-> "int", v |-> n]

\* a 0-d result of indexing (one sample) and a 1-d result (a run of samples)
sample(v) == [type |-> "Tensor", dim |-> 0, a |-> <<v>>]

samples(s) == [type |-> "Tensor", dim |-> 1, a |-> s]

\* the two arrays of the caller
Addr == {"input_data", "output_data"}

\* the numpy arrays a caller can pass: 1-D arrays of 0..MaxLen samples
Arrays == {ndarray(s) : s \in UNION {[1..n -> Values] : n \in 0..MaxLen}}

Args == Arrays \cup {None}

----------------------------------------------------------------------------
(* Indices a caller can pass to __getitem__ *)

IntIndex == [kind : {"int"}, v : (0 - (MaxLen + 1))..(MaxLen + 1)]

SliceIndex == [kind : {"slice"}, start : {-1, 0}, stop : {1, MaxLen + 1}, step : {-1, 1, 2}]

OtherIndex == [kind : {"float"}]

Index == IntIndex \cup SliceIndex \cup OtherIndex

at(i) == [kind |-> "int", v |-> i]

----------------------------------------------------------------------------
VARIABLES mem, lastw, ctor, table, call, pc, idx, x, res

vars == <<mem, lastw, ctor, table, call, pc, idx, x, res>>

----------------------------------------------------------------------------
Raise(e) == [raised |-> TRUE, exc |-> e]

Return(o) == [raised |-> FALSE, ret |-> o]

NoCall == [op |-> "none"]

\* A tensor's storage is either the memory of a numpy array (shared) or
\* memory of its own.

\* a tensor that copies the array at address a, as torch.tensor(a) does
from_numpy_copy(a) == [type |-> "Tensor", storage |-> [shared |-> FALSE, a |-> mem[a].a]]

(* torch.from_numpy(a): a tensor over the memory of the array at address a *)
from_numpy(a) == [type |-> "Tensor", storage |-> [shared |-> TRUE, addr |-> a]]

\* the current contents of a tensor
data(t) == IF t.storage.shared THEN mem[t.storage.addr].a ELSE t.storage.a

\* len() of a Python value
len(o) == IF o.type = "NoneType" THEN Raise("TypeError") ELSE Return(int(Len(o.a)))

\* __init__ without the comparison of the lengths
init_nocheck(input_data, output_data) ==
    IF mem[input_data] = None
    THEN Raise("ValueError")
    ELSE IF mem[output_data] # None
         THEN Return([type |-> "MamoDataset",
                      _input_data |-> from_numpy(input_data),
                      _output_data |-> from_numpy(output_data)])
         ELSE Return([type |-> "MamoDataset",
                      _input_data |-> from_numpy(input_data),
                      _output_data |-> None])

\* __init__ comparing the lengths before it looks at input_data
init_lenfirst(input_data, output_data) ==
    IF mem[output_data] # None /\ len(mem[input_data]).raised
    THEN len(mem[input_data])
    ELSE IF mem[output_data] # None /\ len(mem[input_data]) # len(mem[output_data])
    THEN Raise("ValueError")
    ELSE IF mem[input_data] = None
    THEN Raise("ValueError")
    ELSE Return([type |-> "MamoDataset",
                 _input_data |-> from_numpy(input_data),
                 _output_data |-> IF mem[output_data] # None
                                  THEN from_numpy(output_data) ELSE None])

\* MamoDataset.__init__(input_data, output_data); the arguments are the
\* addresses of the caller's arrays (an address may hold None)
__init__(input_data, output_data) ==
    IF mem[input_data] = None
    THEN Raise("ValueError")
    ELSE IF mem[output_data] # None
         THEN IF len(mem[input_data]) # len(mem[output_data])
              THEN Raise("ValueError")
              ELSE Return([type |-> "MamoDataset",
                           _input_data |-> from_numpy(input_data),
                           _output_data |-> from_numpy(output_data)])
         ELSE Return([type |-> "MamoDataset",
                      _input_data |-> from_numpy(input_data),
                      _output_data |-> None])

\* MamoDataset.__len__
__len__(self) == Return(int(Len(data(self._input_data))))

\* a slice bound resolved against a length n, as Python's slice.indices does
\* for a positive step: counted from the end if negative, then clamped
clamp(b, n) ==
    IF b < 0 THEN (IF b + n < 0 THEN 0 ELSE b + n) ELSE (IF b > n THEN n ELSE b)

\* number of positions start, start+step, ... below stop
count(start, stop, step) ==
    IF stop > start THEN (stop - start + step - 1) \div step ELSE 0

\* tensor[index] that takes no index counted from the end
tensor_getitem_nowrap(t, index) ==
    LET d == data(t)
        n == Len(d)
    IN  CASE index.kind = "int" ->
                IF index.v >= n \/ index.v < 0
                THEN Raise("IndexError")
                ELSE Return(sample(d[index.v + 1]))
          [] index.kind = "slice" ->
                IF index.step <= 0
                THEN Raise("ValueError")
                ELSE LET b == clamp(index.start, n)
                         e == clamp(index.stop, n)
                     IN  Return(samples([k \in 1..count(b, e, index.step) |->
                                            d[b + (k - 1) * index.step + 1]]))
          [] OTHER -> Raise("IndexError")

\* tensor[index] that checks the bounds of a slice instead of clamping them
tensor_getitem_strict(t, index) ==
    LET d == data(t)
        n == Len(d)
    IN  CASE index.kind = "int" ->
                IF index.v >= n \/ index.v < 0 - n
                THEN Raise("IndexError")
                ELSE Return(sample(d[(IF index.v < 0 THEN index.v + n ELSE index.v) + 1]))
          [] index.kind = "slice" ->
                IF index.step <= 0
                THEN Raise("ValueError")
                ELSE IF index.stop > n \/ index.start < 0 - n
                THEN Raise("IndexError")
                ELSE LET b == clamp(index.start, n)
                         e == clamp(index.stop, n)
                     IN  Return(samples([k \in 1..count(b, e, index.step) |->
                                            d[b + (k - 1) * index.step + 1]]))
          [] OTHER -> Raise("IndexError")

\* tensor[index] of torch for a 1-d tensor of samples
tensor_getitem(t, index) ==
    LET d == data(t)
        n == Len(d)
    IN  CASE index.kind = "int" ->
                IF index.v >= n \/ index.v < 0 - n
                THEN Raise("IndexError")
                ELSE Return(sample(d[(IF index.v < 0 THEN index.v + n ELSE index.v) + 1]))
          [] index.kind = "slice" ->
                IF index.step <= 0
                THEN Raise("ValueError")
                ELSE LET b == clamp(index.start, n)
                         e == clamp(index.stop, n)
                     IN  Return(samples([k \in 1..count(b, e, index.step) |->
                                            d[b + (k - 1) * index.step + 1]]))
          [] OTHER -> Raise("IndexError")

\* lines 82-86 returning x twice whether or not there is output data
gety_nooutput(self, index, xv) == Return(<<xv, xv>>)

\* lines 82-86 returning the whole input tensor as the second element when
\* there is no output data
gety_whole(self, index, xv) ==
    IF self._output_data = None
    THEN Return(<<xv, samples(data(self._input_data))>>)
    ELSE LET y == tensor_getitem(self._output_data, index)
         IN  IF y.raised THEN y ELSE Return(<<xv, y.ret>>)

\* MamoDataset.__getitem__, lines 82-86: the pair built from the input sample
gety(self, index, xv) ==
    IF self._output_data = None
    THEN Return(<<xv, xv>>)
    ELSE LET y == tensor_getitem(self._output_data, index)
         IN  IF y.raised THEN y ELSE Return(<<xv, y.ret>>)

\* MamoDataset.__getitem__
__getitem__(self, index) ==
    LET xo == tensor_getitem(self._input_data, index)
    IN  IF xo.raised THEN xo ELSE gety(self, index, xo.ret)

----------------------------------------------------------------------------
Init ==
    /\ mem \in [Addr -> Args]
    /\ lastw = NoCall
    /\ ctor = NoCall
    /\ table = None
    /\ call = NoCall
    /\ pc = [r \in Readers |-> "idle"]
    /\ idx = [r \in Readers |-> at(0)]
    /\ x = [r \in Readers |-> None]
    /\ res = [r \in Readers |-> NoCall]

\* the caller runs MamoDataset(input_data, output_data)
Construct ==
    /\ ctor = NoCall
    /\ ctor' = [op |-> "init", out |-> __init__("input_data", "output_data")]
    /\ table' = IF ctor'.out.raised THEN None ELSE ctor'.out.ret
    /\ UNCHANGED <<mem, lastw, call, pc, idx, x, res>>

\* the caller writes an element of one of its own arrays after construction
Write(a, i, v) ==
    /\ table # None
    /\ mem[a] # None
    /\ i \in 1..Len(mem[a].a)
    /\ mem[a].a[i] # v
    /\ mem' = [mem EXCEPT ![a].a[i] = v]
    /\ lastw' = [op |-> "write", a |-> a, i |-> i, v |-> v]
    /\ UNCHANGED <<ctor, table, call, pc, idx, x, res>>

\* the caller runs len(table)
Size ==
    /\ table # None
    /\ call' = [op |-> "len", out |-> __len__(table)]
    /\ UNCHANGED <<mem, lastw, ctor, table, pc, idx, x, res>>

\* table[index] that drops the output data when the lookup raises
Get_drop(index) ==
    /\ table # None
    /\ call' = [op |-> "getitem", index |-> index, out |-> __getitem__(table, index)]
    /\ table' = IF call'.out.raised THEN [table EXCEPT !._output_data = None] ELSE table
    /\ UNCHANGED <<mem, lastw, ctor, pc, idx, x, res>>

\* the caller runs table[index]
Get(index) ==
    /\ table # None
    /\ call' = [op |-> "getitem", index |-> index, out |-> __getitem__(table, index)]
    /\ UNCHANGED <<mem, lastw, ctor, table, pc, idx, x, res>>

Next ==
    \/ Construct
    \/ \E a \in Addr, i \in 1..MaxLen, v \in Values : Write(a, i, v)
    \/ Size
    \/ \E index \in Index : Get(index)

Spec == Init /\ [][Next]_vars

----------------------------------------------------------------------------
(* Several readers (DataLoader workers) on one table; a reader's            *)
(* __getitem__ runs line 81, then lines 82-86, and other readers may run    *)
(* in between.  No one writes the arrays.                                   *)

\* reader r runs len(table)
RSize(r) ==
    /\ table # None
    /\ pc[r] = "idle"
    /\ res' = [res EXCEPT ![r] = [op |-> "len", out |-> __len__(table)]]
    /\ UNCHANGED <<mem, lastw, ctor, table, call, pc, idx, x>>

\* line 81 keeping x in a place all readers share
GetX_shared(r, index) ==
    /\ table # None
    /\ pc[r] = "idle"
    /\ idx' = [idx EXCEPT ![r] = index]
    /\ LET xo == tensor_getitem(table._input_data, index)
       IN  IF xo.raised
           THEN /\ res' = [res EXCEPT ![r] = [op |-> "getitem", out |-> xo]]
                /\ UNCHANGED <<pc, x>>
           ELSE /\ x' = [q \in Readers |-> xo.ret]
                /\ pc' = [pc EXCEPT ![r] = "L82"]
                /\ res' = [res EXCEPT ![r] = NoCall]
    /\ UNCHANGED <<mem, lastw, ctor, table, call>>

\* reader r enters table[index] and runs line 81
GetX(r, index) ==
    /\ table # None
    /\ pc[r] = "idle"
    /\ idx' = [idx EXCEPT ![r] = index]
    /\ LET xo == tensor_getitem(table._input_data, index)
       IN  IF xo.raised
           THEN /\ res' = [res EXCEPT ![r] = [op |-> "getitem", out |-> xo]]
                /\ UNCHANGED <<pc, x>>
           ELSE /\ x' = [x EXCEPT ![r] = xo.ret]
                /\ pc' = [pc EXCEPT ![r] = "L82"]
                /\ res' = [res EXCEPT ![r] = NoCall]
    /\ UNCHANGED <<mem, lastw, ctor, table, call>>

\* reader r runs lines 82-86 and returns
GetY(r) ==
    /\ pc[r] = "L82"
    /\ res' = [res EXCEPT ![r] = [op |-> "getitem", out |-> gety(table, idx[r], x[r])]]
    /\ pc' = [pc EXCEPT ![r] = "idle"]
    /\ x' = [x EXCEPT ![r] = None]
    /\ UNCHANGED <<mem, lastw, ctor, table, call, idx>>

NextConc ==
    \/ Construct
    \/ \E r \in Readers : RSize(r)
    \/ \E r \in Readers, index \in Index : GetX(r, index)
    \/ \E r \in Readers : GetY(r)

SpecConc == Init /\ [][NextConc]_vars

----------------------------------------------------------------------------
(* Properties *)

\* the caller's arrays as the table was given them
inputs == mem["input_data"].a

outputs == mem["output_data"].a

N == Len(inputs)

Paired == table # None /\ table._output_data # None

SelfPaired == table # None /\ table._output_data = None

GotItem == call.op = "getitem"

\* C1: a table built from inputs and outputs of N samples each has size N,
\* and get(i) for 0 <= i < N is the pair (inputs[i], outputs[i]).
C1_PairedLookup ==
    [][/\ (Size /\ Paired => call'.out = Return(int(N)) /\ N = Len(outputs))
       /\ \A i \in 0..(MaxLen - 1) :
            (Get(at(i)) /\ Paired /\ i < N
                => call'.out = Return(<<sample(inputs[i + 1]), sample(outputs[i + 1])>>))]_vars

C1_Witness ==
    /\ GotItem /\ Paired
    /\ call.index.kind = "int" /\ call.index.v = 1 /\ N = 2
    /\ ~call.out.raised
    /\ inputs[2] # outputs[2] /\ inputs[1] # inputs[2] /\ outputs[1] # outputs[2]
    /\ call.out.ret = <<sample(inputs[2]), sample(outputs[2])>>

\* C2: a table built from inputs of N samples and no outputs has size N and
\* get(i) for 0 <= i < N is (inputs[i], inputs[i]); the table is self-paired
\* exactly when outputs was absent at construction, for its whole life.
C2_SelfPairedLookup ==
    /\ [](table # None => (SelfPaired <=> mem["output_data"] = None))
    /\ [][table # None => table'._output_data = table._output_data]_vars
    /\ [][/\ (Size /\ SelfPaired => call'.out = Return(int(N)))
          /\ \A i \in 0..(MaxLen - 1) :
               (Get(at(i)) /\ SelfPaired /\ i < N
                   => call'.out = Return(<<sample(inputs[i + 1]), sample(inputs[i + 1])>>))]_vars

C2_Witness ==
    /\ GotItem /\ SelfPaired
    /\ mem["output_data"] = None
    /\ call.index.kind = "int" /\ call.index.v = 1 /\ N = 2
    /\ inputs[1] # inputs[2]
    /\ ~call.out.raised
    /\ call.out.ret = <<sample(inputs[2]), sample(inputs[2])>>

\* C3: construction with outputs present and of another length than inputs
\* raises ValueError and leaves no table; a table with outputs has
\* len(outputs) = len(inputs) in every state.
C3_LengthMismatch ==
    /\ (/\ ctor # NoCall
        /\ mem["input_data"] # None /\ mem["output_data"] # None
        /\ Len(inputs) # Len(outputs))
            => (ctor.out = Raise("ValueError") /\ table = None)
    /\ Paired => Len(data(table._input_data)) = Len(data(table._output_data))

C3_Witness ==
    /\ ctor # NoCall
    /\ mem["input_data"] # None /\ mem["output_data"] # None
    /\ Len(inputs) = 2 /\ Len(outputs) = 1
    /\ ctor.out.raised
    /\ table = None

\* C4: construction with inputs None raises ValueError whatever outputs is,
\* and leaves no table.
C4_InputsAbsent ==
    (ctor # NoCall /\ mem["input_data"] = None)
        => (ctor.out = Raise("ValueError") /\ table = None)

C4_Witness ==
    /\ ctor # NoCall
    /\ mem["input_data"] = None
    /\ mem["output_data"] # None /\ Len(outputs) = 1
    /\ ctor.out.raised

\* C5 as stated: get(index) with an integer index < 0 or >= size() raises
\* IndexError, a negative index such as -1 included.
C5_Original ==
    (GotItem /\ call.index.kind = "int" /\ (call.index.v < 0 \/ call.index.v >= N))
        => call.out = Raise("IndexError")

\* C5 amended: get(index) raises IndexError for an integer index >= size()
\* or < -size(); an index with -size() <= index < 0 is counted from the end
\* and get(index) returns what get(size() + index) returns.
C5_IndexRange ==
    [][\A index \in IntIndex :
         Get(index) =>
            /\ (index.v >= N \/ index.v < 0 - N) => call'.out = Raise("IndexError")
            /\ (index.v < 0 /\ index.v >= 0 - N) =>
                   /\ ~call'.out.raised
                   /\ call'.out = __getitem__(table, at(N + index.v))
            /\ (index.v >= 0 /\ index.v < N) => ~call'.out.raised]_vars

C5_Witness ==
    /\ GotItem /\ call.index.kind = "int" /\ call.index.v = -1 /\ N = 2
    /\ inputs[1] # inputs[2]
    /\ ~call.out.raised
    /\ call.out.ret[1] = sample(inputs[2])

\* the positions a slice names before any clamping, for a positive step
nominal(b, n) == IF b < 0 THEN b + n ELSE b

Named(index, n) ==
    {p \in (0 - (MaxLen + 1))..(MaxLen + 1) :
        /\ p >= nominal(index.start, n) /\ p < nominal(index.stop, n)
        /\ (p - nominal(index.start, n)) % index.step = 0}

OutOfRangeSlice(index, n) ==
    /\ index.kind = "slice" /\ index.step > 0
    /\ \E p \in Named(index, n) : p < 0 \/ p >= n

\* the samples of d in the range of the slice once each bound is brought
\* into 0..Len(d)
Inside(index, d) ==
    LET n == Len(d)
        s0 == nominal(index.start, n)
        e0 == nominal(index.stop, n)
        lo == IF s0 < 0 THEN 0 ELSE IF s0 > n THEN n ELSE s0
        hi == IF e0 < 0 THEN 0 ELSE IF e0 > n THEN n ELSE e0
        P == {p \in lo..(hi - 1) : (p - lo) % index.step = 0}
    IN  [k \in 1..Cardinality(P) |-> d[lo + (k - 1) * index.step + 1]]

\* C6 as stated: get with a slice that names a position outside [0, size())
\* raises IndexError.
C6_Original ==
    (GotItem /\ OutOfRangeSlice(call.index, N)) => call.out = Raise("IndexError")

\* C6 amended: get with a slice of positive step that names a position
\* outside [0, size()) raises nothing: each bound is clamped into
\* [0, size()] and the pair of the (possibly shorter, possibly empty) runs
\* of samples in the clamped range is returned.
C6_SliceClamped ==
    [][\A index \in SliceIndex :
         (Get(index) /\ OutOfRangeSlice(index, N)) =>
            /\ ~call'.out.raised
            /\ call'.out.ret[1] = samples(Inside(index, inputs))
            /\ call'.out.ret[2] =
                   samples(Inside(index, IF Paired THEN outputs ELSE inputs))]_vars

C6_Witness ==
    /\ GotItem /\ OutOfRangeSlice(call.index, N)
    /\ call.index.start = 0 /\ call.index.stop = MaxLen + 1 /\ call.index.step = 1
    /\ N = 2
    /\ ~call.out.raised
    /\ call.out.ret[1] = samples(inputs)
    /\ Len(call.out.ret[1].a) < Cardinality(Named(call.index, N))

\* what get(i) returns for the arrays held in m
PairOf(m, i) ==
    <<sample(m["input_data"].a[i + 1]),
      sample(IF Paired THEN m["output_data"].a[i + 1] ELSE m["input_data"].a[i + 1])>>

\* C7 as stated: whatever the caller writes to its arrays after construction,
\* size() and get(i) go on returning what they returned right after
\* construction, that is, no step changes what they return.
C7_Original ==
    [][table # None =>
          /\ (__len__(table))' = __len__(table)
          /\ \A i \in 0..(MaxLen - 1) :
               i < N => (__getitem__(table, at(i)))' = __getitem__(table, at(i))]_vars

\* C7 amended: a write the caller makes to an element of its inputs or
\* outputs array after construction leaves size() as it was and is seen by
\* get: the table shares the arrays' memory, and get(i) returns the current
\* contents of position i of the caller's arrays.
C7_WritesVisible ==
    [][\A a \in Addr, i \in 1..MaxLen, v \in Values :
         Write(a, i, v) =>
            /\ (__len__(table))' = __len__(table)
            /\ \A j \in 0..(MaxLen - 1) :
                 j < N => (__getitem__(table, at(j)))' = Return(PairOf(mem', j))
            /\ (a = "input_data" \/ Paired) =>
                   (__getitem__(table, at(i - 1)))' # __getitem__(table, at(i - 1))]_vars

C7_Witness ==
    /\ table # None
    /\ lastw = [op |-> "write", a |-> "input_data", i |-> 2, v |-> 1]
    /\ N = 2
    /\ __getitem__(table, at(1)).ret[1] = sample(1)

\* C8: a get that raises leaves the table and its data as they were: size()
\* and get(i) for every valid i return after it what they returned before.
C8_FailedGetNoEffect ==
    [][(call' # call /\ call'.op = "getitem" /\ call'.out.raised) =>
          /\ table' = table
          /\ mem' = mem
          /\ (__len__(table))' = __len__(table)
          /\ \A j \in 0..(MaxLen - 1) :
               j < N => (__getitem__(table, at(j)))' = __getitem__(table, at(j))]_vars

C8_Witness ==
    /\ GotItem /\ call.out.raised
    /\ table # None /\ N = 2
    /\ __getitem__(table, at(1)) = Return(PairOf(mem, 1))

\* C9: with several readers interleaving get and size on one table, every
\* finished get(i) has returned what get(i) run alone returns, two finished
\* get of the same index have returned the same, every size() has returned
\* the size, and no step of a reader changes the table or its data.
C9_ConcurrentReads ==
    /\ [](\A r \in Readers :
            /\ res[r].op = "getitem" => res[r].out = __getitem__(table, idx[r])
            /\ res[r].op = "len" => res[r].out = Return(int(N))
            /\ \A q \in Readers :
                 (res[r].op = "getitem" /\ res[q].op = "getitem" /\ idx[r] = idx[q])
                     => res[r].out = res[q].out)
    /\ [][table # None => (table' = table /\ mem' = mem)]_vars

C9_Witness ==
    /\ pc["r1"] = "L82" /\ idx["r1"] = at(0)
    /\ res["r2"].op = "getitem" /\ idx["r2"] = at(1)
    /\ Paired /\ N = 2
    /\ inputs[1] # inputs[2]
    /\ res["r2"].out = Return(PairOf(mem, 1))

\* C10 as stated: get with an index that is neither an integer nor a slice
\* (a float) raises ValueError, not the IndexError of an integer out of range.
C10_Original ==
    (GotItem /\ call.index.kind = "float") => call.out = Raise("ValueError")

====
